---- MODULE Spec2Model ----
(***************************************************************************)
(* thetactl: options profitability accounting.                             *)
(*                                                                         *)
(* The repository holds three revisions of the two folds (the per-symbol   *)
(* trade grid and the per-contract trade sequence):                        *)
(*   "components"  thetalib/ui/components.py                               *)
(*   "analyze"     thetalib/brokers/analyze.py                             *)
(*   "base"        thetalib/brokers/base.py                                *)
(* The variable rev names the revision a run executes.  Revisions          *)
(* "components" and "analyze" are driven by trade_grid (components.py),    *)
(* whose calling convention both share; revision "base" is driven by       *)
(* Broker.print_options_profitability (base.py).  The variable caller      *)
(* names who starts the run: cmd_analyze_options of thetactl.py (which     *)
(* hands trade_grid the broker's option trades), cmd_analyze_options of    *)
(* main.py (which calls print_options_profitability), or a direct call of  *)
(* trade_grid on a trade collection.                                       *)
(*                                                                         *)
(* Spec is a run of the report.  SpecTd is a sequence of get_trades calls  *)
(* on one BrokerTd object (providers/td.py).  SpecCfg is a sequence of     *)
(* runs of thetactl.py (add-broker, remove-broker, list-brokers and the    *)
(* broker selection of analyze-options) on one stored configuration        *)
(* (config.py).                                                            *)
(*                                                                         *)
(* Money is counted in whole currency units, dates and times in small      *)
(* integers.  Display strings are modelled by the values they show.        *)
(***************************************************************************)
EXTENDS Integers, Sequences, FiniteSets

\* ---------------------------------------------------------------- bounds
MaxTrades == 2
MaxQty == 2
MaxPrice == 2
MaxTime == 2
MaxDate == 2
MaxTransactions == 2
MaxCalls == 3
MaxBrokers == 3
MaxTyped == 2

\* ------------------------------------------------------------ enumerations
None == "None"
BUY == "BUY"
SELL == "SELL"
OPEN == "OPEN"
CLOSE == "CLOSE"
EQUITY == "EQUITY"
OPTION == "OPTION"
PUT == "PUT"
CALL == "CALL"

Instruction == {BUY, SELL}
PositionEffect == {OPEN, CLOSE}
AssetType == {EQUITY, OPTION}
OptionType == {PUT, CALL}

Revisions == {"components", "analyze", "base"}

\* ---------------------------------------------------------------- trades
\* Option symbols as TD names them (underlying, expiry, kind in one key).
OptionSymbols == {"AAA_C", "AAA_P", "BBB_P"}
EquitySymbols == {"AAA"}

\* instrument['underlyingSymbol'] of an option instrument
underlyingSymbol(option_symbol) ==
    IF option_symbol = "BBB_P" THEN "BBB" ELSE "AAA"

\* instrument['putCall'] of an option instrument
putCall(option_symbol) ==
    IF option_symbol = "AAA_C" THEN CALL ELSE PUT

\* instrument['optionExpirationDate'] of an option instrument
optionExpirationDate(option_symbol) ==
    IF option_symbol = "AAA_P" THEN 2 ELSE 1

\* Ascending order of the symbol names, as Python compares strings.
SymbolLess(a, b) == a = "AAA" /\ b = "BBB"

\* option_expiration = None of an EQUITY trade, as a date no contract has.
NoExpiration == 0

\* TdTrade.__init__: the canonical trade of one TRADE transaction.
TdTrade(asset_type, instruction, instrument, position_effect, amount, price, transactionDate) ==
    IF asset_type = EQUITY
    THEN [instruction |-> instruction,
          asset_type |-> EQUITY,
          option_type |-> None,
          position_effect |-> None,
          quantity |-> amount,
          price |-> price,
          symbol |-> instrument,
          option_expiration |-> NoExpiration,
          option_symbol |-> None,
          transaction_datetime |-> transactionDate]
    ELSE [instruction |-> instruction,
          asset_type |-> OPTION,
          option_type |-> putCall(instrument),
          position_effect |-> position_effect,
          quantity |-> amount,
          price |-> price,
          symbol |-> underlyingSymbol(instrument),
          option_expiration |-> optionExpirationDate(instrument),
          option_symbol |-> instrument,
          transaction_datetime |-> transactionDate]

EquityTrades ==
    {TdTrade(EQUITY, i, s, None, q, p, d) :
        i \in Instruction, s \in EquitySymbols,
        q \in 1..MaxQty, p \in 1..MaxPrice, d \in 1..MaxTime}

OptionTrades ==
    {TdTrade(OPTION, i, s, e, q, p, d) :
        i \in Instruction, s \in OptionSymbols, e \in PositionEffect,
        q \in 1..MaxQty, p \in 1..MaxPrice, d \in 1..MaxTime}

Trades == EquityTrades \cup OptionTrades

TradeLists == UNION {[1..n -> Trades] : n \in 0..MaxTrades}

\* Trade.cost as its docstring words it: positive for OPEN, negative for
\* CLOSE.
cost_sign_by_effect(trade) ==
    LET sign == IF trade.position_effect = OPEN THEN 1 ELSE -1
        multiplier == IF trade.asset_type = OPTION THEN 100 ELSE 1
    IN trade.price * trade.quantity * sign * multiplier

\* Trade.cost
cost(trade) ==
    LET sign == IF trade.instruction = BUY THEN -1 ELSE 1
        multiplier == IF trade.asset_type = OPTION THEN 100 ELSE 1
    IN trade.price * trade.quantity * sign * multiplier

\* ------------------------------------------------------- symbol grid builder
\* grid_interest_components with BUY-to-CLOSE of a CALL booked on the long
\* calls counter instead of the short calls counter.
grid_interest_components_wrong_counter(trade) ==
    LET pos == <<trade.instruction, trade.option_type, trade.position_effect>>
    IN [call_long_interest_delta |->
            IF pos = <<BUY, CALL, OPEN>> THEN trade.quantity
            ELSE IF pos \in {<<SELL, CALL, CLOSE>>, <<BUY, CALL, CLOSE>>} THEN -trade.quantity
            ELSE 0,
        call_short_interest_delta |->
            IF pos = <<SELL, CALL, OPEN>> THEN trade.quantity
            ELSE 0,
        put_long_interest_delta |->
            IF pos = <<BUY, PUT, OPEN>> THEN trade.quantity
            ELSE IF pos = <<SELL, PUT, CLOSE>> THEN -trade.quantity
            ELSE 0,
        put_short_interest_delta |->
            IF pos = <<BUY, PUT, CLOSE>> THEN -trade.quantity
            ELSE IF pos = <<SELL, PUT, OPEN>> THEN trade.quantity
            ELSE 0]

\* The interest branch of the loop of _get_trade_grid (components.py): the four interest deltas of
\* one trade.
grid_interest_components(trade) ==
    LET pos == <<trade.instruction, trade.option_type, trade.position_effect>>
    IN [call_long_interest_delta |->
            IF pos = <<BUY, CALL, OPEN>> THEN trade.quantity
            ELSE IF pos = <<SELL, CALL, CLOSE>> THEN -trade.quantity
            ELSE 0,
        call_short_interest_delta |->
            IF pos = <<BUY, CALL, CLOSE>> THEN -trade.quantity
            ELSE IF pos = <<SELL, CALL, OPEN>> THEN trade.quantity
            ELSE 0,
        put_long_interest_delta |->
            IF pos = <<BUY, PUT, OPEN>> THEN trade.quantity
            ELSE IF pos = <<SELL, PUT, CLOSE>> THEN -trade.quantity
            ELSE 0,
        put_short_interest_delta |->
            IF pos = <<BUY, PUT, CLOSE>> THEN -trade.quantity
            ELSE IF pos = <<SELL, PUT, OPEN>> THEN trade.quantity
            ELSE 0]

\* grid_profits_components without the contract multiplier of 100.
grid_profits_components_no_multiplier(trade) ==
    LET magnitude == trade.price * trade.quantity
        total_profits_delta ==
            IF trade.instruction = BUY THEN -magnitude ELSE magnitude
    IN [call_profits_delta |->
            IF trade.option_type = CALL THEN total_profits_delta ELSE 0,
        put_profits_delta |->
            IF trade.option_type = CALL THEN 0 ELSE total_profits_delta,
        total_profits_delta |-> total_profits_delta]

\* The profit part of the loop of _get_trade_grid (components.py): computed
\* for every trade, whatever its asset type, and credited to the puts column
\* unless the option type is CALL.
grid_profits_components(trade) ==
    LET magnitude == trade.price * trade.quantity * 100
        total_profits_delta ==
            IF trade.instruction = BUY THEN -magnitude ELSE magnitude
    IN [call_profits_delta |->
            IF trade.option_type = CALL THEN total_profits_delta ELSE 0,
        put_profits_delta |->
            IF trade.option_type = CALL THEN 0 ELSE total_profits_delta,
        total_profits_delta |-> total_profits_delta]

\* The interest branch of the loop of get_trade_grid (analyze.py): the four interest deltas of
\* one trade.
grid_interest_analyze(trade) ==
    LET pos == <<trade.instruction, trade.option_type, trade.position_effect>>
    IN [call_long_interest_delta |->
            IF pos = <<BUY, CALL, OPEN>> THEN 100 * trade.quantity
            ELSE IF pos = <<SELL, CALL, CLOSE>> THEN -100 * trade.quantity
            ELSE 0,
        call_short_interest_delta |->
            IF pos = <<BUY, CALL, CLOSE>> THEN -100 * trade.quantity
            ELSE IF pos = <<SELL, CALL, OPEN>> THEN 100 * trade.quantity
            ELSE 0,
        put_long_interest_delta |->
            IF pos = <<BUY, PUT, OPEN>> THEN 100 * trade.quantity
            ELSE IF pos = <<SELL, PUT, CLOSE>> THEN -100 * trade.quantity
            ELSE 0,
        put_short_interest_delta |->
            IF pos = <<BUY, PUT, CLOSE>> THEN -100 * trade.quantity
            ELSE IF pos = <<SELL, PUT, OPEN>> THEN 100 * trade.quantity
            ELSE 0]

\* grid_profits_analyze with the sign taken from the position effect (OPEN
\* debits, CLOSE credits) instead of from the instruction.
grid_profits_analyze_sign_by_effect(trade) ==
    LET pos == <<trade.instruction, trade.option_type, trade.position_effect>>
        call_profits_delta ==
            IF pos \in {<<BUY, CALL, OPEN>>, <<SELL, CALL, OPEN>>}
            THEN -trade.price * trade.quantity * 100
            ELSE IF pos \in {<<BUY, CALL, CLOSE>>, <<SELL, CALL, CLOSE>>}
            THEN trade.price * trade.quantity * 100
            ELSE 0
        put_profits_delta ==
            IF pos \in {<<BUY, PUT, OPEN>>, <<SELL, PUT, OPEN>>}
            THEN -trade.price * trade.quantity * 100
            ELSE IF pos \in {<<BUY, PUT, CLOSE>>, <<SELL, PUT, CLOSE>>}
            THEN trade.price * trade.quantity * 100
            ELSE 0
    IN [call_profits_delta |-> call_profits_delta,
        put_profits_delta |-> put_profits_delta,
        total_profits_delta |-> call_profits_delta + put_profits_delta]

\* The profit assignments of the branches of get_trade_grid (analyze.py): the calls and puts
\* profit deltas of one trade; no branch taken leaves both at 0.
grid_profits_analyze(trade) ==
    LET pos == <<trade.instruction, trade.option_type, trade.position_effect>>
        call_profits_delta ==
            IF pos \in {<<BUY, CALL, OPEN>>, <<BUY, CALL, CLOSE>>}
            THEN -trade.price * trade.quantity * 100
            ELSE IF pos \in {<<SELL, CALL, OPEN>>, <<SELL, CALL, CLOSE>>}
            THEN trade.price * trade.quantity * 100
            ELSE 0
        put_profits_delta ==
            IF pos \in {<<BUY, PUT, OPEN>>, <<BUY, PUT, CLOSE>>}
            THEN -trade.price * trade.quantity * 100
            ELSE IF pos \in {<<SELL, PUT, OPEN>>, <<SELL, PUT, CLOSE>>}
            THEN trade.price * trade.quantity * 100
            ELSE 0
    IN [call_profits_delta |-> call_profits_delta,
        put_profits_delta |-> put_profits_delta,
        total_profits_delta |-> call_profits_delta + put_profits_delta]

\* The interest branch of the loop of get_trade_grid (base.py): the four interest deltas of
\* one trade.
grid_interest_base(trade) ==
    LET pos == <<trade.instruction, trade.option_type, trade.position_effect>>
    IN [call_long_interest_delta |->
            IF pos = <<BUY, CALL, OPEN>> THEN 100 * trade.quantity
            ELSE IF pos = <<SELL, CALL, CLOSE>> THEN -100 * trade.quantity
            ELSE 0,
        call_short_interest_delta |->
            IF pos = <<BUY, CALL, CLOSE>> THEN -100 * trade.quantity
            ELSE IF pos = <<SELL, CALL, OPEN>> THEN 100 * trade.quantity
            ELSE 0,
        put_long_interest_delta |->
            IF pos = <<BUY, PUT, OPEN>> THEN 100 * trade.quantity
            ELSE IF pos = <<SELL, PUT, CLOSE>> THEN -100 * trade.quantity
            ELSE 0,
        put_short_interest_delta |->
            IF pos = <<BUY, PUT, CLOSE>> THEN -100 * trade.quantity
            ELSE IF pos = <<SELL, PUT, OPEN>> THEN 100 * trade.quantity
            ELSE 0]

\* The profit assignments of the branches of get_trade_grid (base.py): the calls and puts
\* profit deltas of one trade; no branch taken leaves both at 0.
grid_profits_base(trade) ==
    LET pos == <<trade.instruction, trade.option_type, trade.position_effect>>
        call_profits_delta ==
            IF pos \in {<<BUY, CALL, OPEN>>, <<BUY, CALL, CLOSE>>}
            THEN -trade.price * trade.quantity * 100
            ELSE IF pos \in {<<SELL, CALL, OPEN>>, <<SELL, CALL, CLOSE>>}
            THEN trade.price * trade.quantity * 100
            ELSE 0
        put_profits_delta ==
            IF pos \in {<<BUY, PUT, OPEN>>, <<BUY, PUT, CLOSE>>}
            THEN -trade.price * trade.quantity * 100
            ELSE IF pos \in {<<SELL, PUT, OPEN>>, <<SELL, PUT, CLOSE>>}
            THEN trade.price * trade.quantity * 100
            ELSE 0
    IN [call_profits_delta |-> call_profits_delta,
        put_profits_delta |-> put_profits_delta,
        total_profits_delta |-> call_profits_delta + put_profits_delta]

grid_interest(revision, trade) ==
    IF revision = "components" THEN grid_interest_components(trade)
    ELSE IF revision = "analyze" THEN grid_interest_analyze(trade)
    ELSE grid_interest_base(trade)

grid_profits(revision, trade) ==
    IF revision = "components" THEN grid_profits_components(trade)
    ELSE IF revision = "analyze" THEN grid_profits_analyze(trade)
    ELSE grid_profits_base(trade)

\* pdeltastr that formats a zero like any other number.
pdeltastr_zero_shown(num) == <<num>>

\* pdeltastr (numfmt.py): the numbers a cell shows for `num`: nothing for 0,
\* else the number (in parentheses).
pdeltastr(num) == IF num = 0 THEN <<>> ELSE <<num>>

\* The tuple appended to rows: per column of the table, the numbers its cell
\* shows, in the order shown.
grid_cells(interest, profits, total_profits) ==
    [long_calls |-> pdeltastr(interest.call_long_interest_delta),
     short_calls |-> pdeltastr(interest.call_short_interest_delta),
     long_puts |-> pdeltastr(interest.put_long_interest_delta),
     short_puts |-> pdeltastr(interest.put_short_interest_delta),
     calls_profits |-> pdeltastr(profits.call_profits_delta),
     puts_profits |-> pdeltastr(profits.put_profits_delta),
     total_profits |-> <<total_profits>> \o pdeltastr(profits.total_profits_delta)]

\* get_trade_grid_row with `total_profits = total_profits_delta` in place of
\* `total_profits += total_profits_delta`: the total is not carried over.
get_trade_grid_row_total_not_carried(revision, trade, total_profits) ==
    LET interest == grid_interest(revision, trade)
        profits == grid_profits(revision, trade)
    IN [trade |-> trade,
        call_long_interest_delta |-> interest.call_long_interest_delta,
        call_short_interest_delta |-> interest.call_short_interest_delta,
        put_long_interest_delta |-> interest.put_long_interest_delta,
        put_short_interest_delta |-> interest.put_short_interest_delta,
        call_profits_delta |-> profits.call_profits_delta,
        put_profits_delta |-> profits.put_profits_delta,
        total_profits |-> profits.total_profits_delta,
        total_profits_delta |-> profits.total_profits_delta,
        cells |-> grid_cells(interest, profits, profits.total_profits_delta)]

\* One iteration of the loop of the grid builder: the row of `trade`, given
\* the running total before it.
get_trade_grid_row(revision, trade, total_profits) ==
    LET interest == grid_interest(revision, trade)
        profits == grid_profits(revision, trade)
    IN [trade |-> trade,
        call_long_interest_delta |-> interest.call_long_interest_delta,
        call_short_interest_delta |-> interest.call_short_interest_delta,
        put_long_interest_delta |-> interest.put_long_interest_delta,
        put_short_interest_delta |-> interest.put_short_interest_delta,
        call_profits_delta |-> profits.call_profits_delta,
        put_profits_delta |-> profits.put_profits_delta,
        total_profits |-> total_profits + profits.total_profits_delta,
        total_profits_delta |-> profits.total_profits_delta,
        cells |-> grid_cells(interest, profits,
                             total_profits + profits.total_profits_delta)]

\* The loop of the grid builder: one row per trade, in the order given,
\* each row carrying the running total after its trade.
RECURSIVE grid_rows(_, _, _)
grid_rows(revision, trade_list, total_profits) ==
    IF trade_list = <<>> THEN <<>>
    ELSE LET row == get_trade_grid_row(revision, Head(trade_list), total_profits)
         IN <<row>> \o grid_rows(revision, Tail(trade_list), row.total_profits)

\* _get_trade_grid / get_trade_grid: the rows and the symbol's total.
get_trade_grid(revision, trade_list) ==
    LET rows == grid_rows(revision, trade_list, 0)
    IN [rows |-> rows,
        total_profits |->
            IF rows = <<>> THEN 0 ELSE rows[Len(rows)].total_profits]

\* ------------------------------------------------------ contract accumulator
\* option_keys of a list of (key, trade) pairs in place of the dict: one key
\* per trade, repeated keys included.
option_keys_per_trade(trade_list, seen) ==
    [k \in 1..Len(trade_list) |-> trade_list[k].option_symbol]

\* The keys of an insertion-ordered dict filled from `trade_list`: each
\* option symbol once, in order of first occurrence.
RECURSIVE option_keys(_, _)
option_keys(trade_list, seen) ==
    IF trade_list = <<>> THEN <<>>
    ELSE LET k == Head(trade_list).option_symbol
         IN IF k \in seen
            THEN option_keys(Tail(trade_list), seen)
            ELSE <<k>> \o option_keys(Tail(trade_list), seen \cup {k})

\* trades_by_option[option_symbol]: the trades of one contract, in the
\* order of `trade_list`.
otrades_of(trade_list, option_symbol) ==
    SelectSeq(trade_list, LAMBDA t : t.option_symbol = option_symbol)

\* The interest update of one trade in _get_trade_sequence (components.py).
interest_delta_components(trade) ==
    LET pos == <<trade.instruction, trade.position_effect>>
    IN IF pos = <<BUY, OPEN>> THEN trade.quantity
       ELSE IF pos = <<BUY, CLOSE>> THEN trade.quantity
       ELSE IF pos = <<SELL, OPEN>> THEN -trade.quantity
       ELSE IF pos = <<SELL, CLOSE>> THEN -trade.quantity
       ELSE 0

\* The interest update of one trade in get_trade_sequence (analyze.py).
interest_delta_analyze(trade) ==
    LET pos == <<trade.instruction, trade.position_effect>>
    IN IF pos = <<BUY, OPEN>> THEN trade.quantity * 100
       ELSE IF pos = <<BUY, CLOSE>> THEN trade.quantity * 100
       ELSE IF pos = <<SELL, OPEN>> THEN -(trade.quantity * 100)
       ELSE IF pos = <<SELL, CLOSE>> THEN -(trade.quantity * 100)
       ELSE 0

\* The interest update of one trade in get_trade_sequence (base.py).
interest_delta_base(trade) ==
    LET pos == <<trade.instruction, trade.position_effect>>
    IN IF pos = <<BUY, OPEN>> THEN trade.quantity * 100
       ELSE IF pos = <<BUY, CLOSE>> THEN -(trade.quantity * 100)
       ELSE IF pos = <<SELL, OPEN>> THEN -(trade.quantity * 100)
       ELSE IF pos = <<SELL, CLOSE>> THEN trade.quantity * 100
       ELSE 0

interest_delta(revision, trade) ==
    IF revision = "components" THEN interest_delta_components(trade)
    ELSE IF revision = "analyze" THEN interest_delta_analyze(trade)
    ELSE interest_delta_base(trade)

\* The step appended to trade_sequence for one trade: its colour (red for
\* OPEN, green otherwise), the instruction/effect shorthand and
\* quantity x price = cost.
trade_sequence_step(trade) ==
    [color |-> IF trade.position_effect = OPEN THEN "RED" ELSE "GREEN",
     instruction |-> trade.instruction,
     position_effect |-> trade.position_effect,
     quantity |-> trade.quantity,
     price |-> trade.price,
     cost |-> cost(trade)]

\* fold_otrades with `profit += trade.cost` under
\* `if trade.position_effect == CLOSE`: only closing trades are booked.
RECURSIVE fold_otrades_profit_on_close(_, _, _)
fold_otrades_profit_on_close(revision, otrades, acc) ==
    IF otrades = <<>> THEN acc
    ELSE LET trade == Head(otrades)
         IN fold_otrades_profit_on_close(revision, Tail(otrades),
                [profit |-> IF trade.position_effect = CLOSE
                            THEN acc.profit + cost(trade) ELSE acc.profit,
                 interest |-> acc.interest + interest_delta(revision, trade),
                 trade_sequence |->
                     Append(acc.trade_sequence, trade_sequence_step(trade))])

\* The inner loop over one contract's trades: profit, interest and the
\* steps, from the accumulator value `acc`.
RECURSIVE fold_otrades(_, _, _)
fold_otrades(revision, otrades, acc) ==
    IF otrades = <<>> THEN acc
    ELSE LET trade == Head(otrades)
         IN fold_otrades(revision, Tail(otrades),
                [profit |-> acc.profit + cost(trade),
                 interest |-> acc.interest + interest_delta(revision, trade),
                 trade_sequence |->
                     Append(acc.trade_sequence, trade_sequence_step(trade))])

\* The annotation of one contract after its fold, revisions components.py and
\* analyze.py.  `raised` is the AttributeError of None.date().
expiration_policy_components(interest, option_expiration, today_date) ==
    IF interest # 0
    THEN IF option_expiration = NoExpiration
         THEN [dim |-> FALSE, marker |-> "", interest_shown |-> FALSE, raised |-> TRUE]
         ELSE IF option_expiration > today_date
         THEN [dim |-> TRUE, marker |-> "...", interest_shown |-> TRUE, raised |-> FALSE]
         ELSE [dim |-> FALSE, marker |-> "expired", interest_shown |-> FALSE, raised |-> FALSE]
    ELSE [dim |-> FALSE, marker |-> "", interest_shown |-> FALSE, raised |-> FALSE]

\* The annotation of one contract after its fold, revision base.py.
expiration_policy_base(interest, option_expiration, today_date) ==
    IF option_expiration = NoExpiration
    THEN [dim |-> FALSE, marker |-> "", interest_shown |-> FALSE, raised |-> TRUE]
    ELSE IF option_expiration > today_date
    THEN [dim |-> TRUE, marker |-> "...", interest_shown |-> TRUE, raised |-> FALSE]
    ELSE [dim |-> FALSE, marker |-> "", interest_shown |-> FALSE, raised |-> FALSE]

expiration_policy(revision, interest, option_expiration, today_date) ==
    IF revision = "base"
    THEN expiration_policy_base(interest, option_expiration, today_date)
    ELSE expiration_policy_components(interest, option_expiration, today_date)

\* One iteration of the outer loop: the row of one contract.
contract_row(revision, option_symbol, otrades, today_date) ==
    LET acc == fold_otrades(revision, otrades,
                   [profit |-> 0, interest |-> 0, trade_sequence |-> <<>>])
        ann == expiration_policy(revision, acc.interest,
                   otrades[1].option_expiration, today_date)
    IN [option_symbol |-> option_symbol,
        profit |-> acc.profit,
        interest |-> acc.interest,
        trade_sequence |-> acc.trade_sequence,
        dim |-> ann.dim,
        marker |-> ann.marker,
        interest_shown |-> ann.interest_shown,
        raised |-> ann.raised]

\* _get_trade_sequence / get_trade_sequence: one row per contract, in the
\* order the contracts first occur, and the "Total profit" summary.
RECURSIVE sequence_rows(_, _, _, _)
sequence_rows(revision, trade_list, keys, today_date) ==
    IF keys = <<>> THEN <<>>
    ELSE <<contract_row(revision, Head(keys),
                        otrades_of(trade_list, Head(keys)), today_date)>>
         \o sequence_rows(revision, trade_list, Tail(keys), today_date)

RECURSIVE sum_profit(_)
sum_profit(rows) ==
    IF rows = <<>> THEN 0 ELSE rows[1].profit + sum_profit(Tail(rows))

get_trade_sequence(revision, trade_list, today_date) ==
    LET rows == sequence_rows(revision, trade_list,
                              option_keys(trade_list, {}), today_date)
    IN [rows |-> rows, total_profit |-> sum_profit(rows)]

\* ---------------------------------------------------------------- aggregator
\* sorted(trades, key=lambda t: t.transaction_datetime): Python's sort is
\* stable, trades of equal time keep their relative order.
RECURSIVE insert_by_time(_, _)
insert_by_time(sorted_list, trade) ==
    IF sorted_list = <<>> THEN <<trade>>
    ELSE IF trade.transaction_datetime < Head(sorted_list).transaction_datetime
         THEN <<trade>> \o sorted_list
         ELSE <<Head(sorted_list)>> \o insert_by_time(Tail(sorted_list), trade)

\* sorted_by_time left out: the trades in the order they came.
sorted_by_time_unsorted(trade_list) == trade_list

RECURSIVE sorted_by_time(_)
sorted_by_time(trade_list) ==
    IF trade_list = <<>> THEN <<>>
    ELSE insert_by_time(sorted_by_time(SubSeq(trade_list, 1, Len(trade_list) - 1)),
                        trade_list[Len(trade_list)])

\* by_symbol: the trades of each symbol that occurs, in input order.
group_by_symbol(trade_list) ==
    [s \in {trade_list[i].symbol : i \in 1..Len(trade_list)} |->
        SelectSeq(trade_list, LAMBDA t : t.symbol = s)]

\* options_by_symbol without the asset-type test: every trade the symbol
\* filter keeps is grouped.
options_by_symbol_any_asset(trade_list, symbol_filter) ==
    group_by_symbol(SelectSeq(trade_list,
        LAMBDA t : ~(symbol_filter # {} /\ t.symbol \notin symbol_filter)))

\* The head of Broker.print_options_profitability (base.py): keep the OPTION
\* trades, skip those a non-empty symbol filter leaves out, group by symbol.
options_by_symbol(trade_list, symbol_filter) ==
    LET options_trades == SelectSeq(trade_list, LAMBDA t : t.asset_type = OPTION)
        kept == SelectSeq(options_trades,
                    LAMBDA t : ~(symbol_filter # {} /\ t.symbol \notin symbol_filter))
    IN group_by_symbol(kept)

\* sorted_symbols with the order reversed (reverse=True): the keys
\* descending.
RECURSIVE sorted_symbols_descending(_)
sorted_symbols_descending(keys) ==
    IF keys = {} THEN <<>>
    ELSE LET greatest == CHOOSE a \in keys : \A b \in keys \ {a} : SymbolLess(b, a)
         IN <<greatest>> \o sorted_symbols_descending(keys \ {greatest})

\* sorted(by_symbol.items(), key=lambda el: el[0]): the keys ascending.
RECURSIVE sorted_symbols(_)
sorted_symbols(keys) ==
    IF keys = {} THEN <<>>
    ELSE LET least == CHOOSE a \in keys : \A b \in keys \ {a} : SymbolLess(a, b)
         IN <<least>> \o sorted_symbols(keys \ {least})

\* One iteration of the loop over symbols: what is printed for `symbol`.
symbol_section(revision, symbol, symbol_trades, today_date) ==
    LET sorted_trades == sorted_by_time(symbol_trades)
        grid == get_trade_grid(revision, sorted_trades)
        condensed == get_trade_sequence(revision, sorted_trades, today_date)
    IN [symbol |-> symbol,
        full_table |-> grid.rows,
        profits |-> grid.total_profits,
        condensed_table |-> condensed.rows,
        total_profit |-> condensed.total_profit]

\* Broker.get_options_trades(symbols), as the specification words the
\* caller's part: the account's OPTION trades, without those a non-empty
\* symbol filter leaves out.
get_options_trades(trade_list, symbol_filter) ==
    SelectSeq(trade_list,
        LAMBDA t : /\ t.asset_type = OPTION
                   /\ (symbol_filter = {} \/ t.symbol \in symbol_filter))

\* sum_values that returns the last symbol's profits instead of adding them
\* all up.
sum_values_last_only(pairs) ==
    IF pairs = <<>> THEN 0 ELSE pairs[Len(pairs)][2]

\* sum(profits_by_symbol.values())
RECURSIVE sum_values(_)
sum_values(pairs) ==
    IF pairs = <<>> THEN 0 ELSE pairs[1][2] + sum_values(Tail(pairs))

\* ----------------------------------------------------------------- BrokerTd
\* The transactions of a TD account, as the transactions endpoint (or a test
\* file) lists them.  An optional value (None or a value v) is written <<>>
\* or <<v>>.
TdTransactions ==
    {[type |-> ty,
      assetType |-> a,
      instruction |-> i,
      positionEffect |-> "OPENING",
      symbol |-> IF a = "OPTION" THEN "AAA_C" ELSE "AAA",
      amount |-> 1,
      price |-> 1,
      transactionDate |-> 1] :
        ty \in {"TRADE", "DIVIDEND_OR_INTEREST"},
        a \in {"OPTION", "EQUITY"},
        i \in {"BUY", "SELL"}}

TransactionLists == UNION {[1..n -> TdTransactions] : n \in 0..MaxTransactions}

\* TdTrade._get_instruction
_get_instruction(api_object) ==
    IF api_object.instruction = "BUY" THEN BUY ELSE SELL

\* TdTrade._get_asset_type
_get_asset_type(api_object) ==
    IF api_object.assetType = "OPTION" THEN OPTION ELSE EQUITY

\* TdTrade._get_position_effect
_get_position_effect(api_object, asset_type) ==
    IF asset_type = EQUITY THEN None
    ELSE IF api_object.positionEffect = "OPENING" THEN OPEN ELSE CLOSE

\* TdTrade(t): the trade of one transaction of type TRADE.
TdTrade_of(api_object) ==
    TdTrade(_get_asset_type(api_object),
            _get_instruction(api_object),
            api_object.symbol,
            _get_position_effect(api_object, _get_asset_type(api_object)),
            api_object.amount,
            api_object.price,
            api_object.transactionDate)

\* BrokerTd.__init__: the object built with a test file holding `test_data`
\* (<<>> when no test file is given).  With a test file the constructor
\* returns before it sets _api.
BrokerTd(test_data) ==
    [_test_data |-> test_data,
     has_api |-> test_data = <<>>,
     _trades |-> <<>>]

\* BrokerTd._get_transactions: the outcomes of one call.  Test data that is
\* not empty is returned; else the account's transactions are fetched,
\* which raises when the object has no _api, and may raise (connection,
\* decoding) or return the list when it has.
_get_transactions(self, api_transactions) ==
    IF self._test_data # <<>> /\ self._test_data[1] # <<>>
    THEN {[raised |-> FALSE, data |-> self._test_data[1]]}
    ELSE IF ~self.has_api
    THEN {[raised |-> TRUE, data |-> <<>>]}
    ELSE {[raised |-> FALSE, data |-> api_transactions],
          [raised |-> TRUE, data |-> <<>>]}

\* [TdTrade(t) for t in transactions if t['type'] == 'TRADE']
trades_of_transactions(transactions) ==
    LET trade_transactions == SelectSeq(transactions, LAMBDA t : t.type = "TRADE")
    IN [k \in 1..Len(trade_transactions) |-> TdTrade_of(trade_transactions[k])]

\* ------------------------------------------------------------ configuration
\* The account names typed at the prompts and given with --account.
AccountNames == {"a", "b", "c"}

\* The provider strings of the entries of a stored configuration: the TD
\* provider and one that names no registered provider class.
ProviderNames == {"td", "unknown"}

\* get_broker_providers (brokers/__init__.py): the provider names that map
\* to a provider class.  BrokerTd (provider_name "td") is the one subclass
\* of Broker.
get_broker_providers == {"td"}

\* The provider data UI_add builds for a token-based account.
TokenData ==
    [file |-> <<>>,
     access_token |-> <<"token">>,
     refresh_token |-> <<"refresh">>,
     account_id |-> <<"id">>]

\* The provider data UI_add builds for a test file: {"file": path}.
FileData ==
    [file |-> <<"trades.json">>,
     access_token |-> <<>>,
     refresh_token |-> <<>>,
     account_id |-> <<>>]

\* The entries of data['brokers'], in the form merge_broker writes them.
BrokerConfigs ==
    [provider : ProviderNames, name : AccountNames, data : {TokenData, FileData}]

\* The account names of the entries of a configuration, with repetitions
\* counted.
names_distinct(brokers) ==
    \A i, j \in 1..Len(brokers) : brokers[i].name = brokers[j].name => i = j

\* The stored configurations a run starts from: pairwise distinct account
\* names.
StoredConfigs ==
    {brokers \in UNION {[1..n -> BrokerConfigs] : n \in 0..MaxBrokers} :
        names_distinct(brokers)}

\* The value of a call that returned (`raised` empty) or the exception it
\* raised.
Returned(value) == [raised |-> <<>>, value |-> <<value>>]

Raised(exception) == [raised |-> <<exception>>, value |-> <<>>]

\* BrokerTd.__init__(config, test_file): `config` is <<>> for None.  The
\* account name is read from config before the test file is looked at.
BrokerTd_init(config, test_file) ==
    IF config = <<>>
    THEN Raised("TypeError")
    ELSE Returned([provider_name |-> "td",
                   account_name |-> config[1].name,
                   config |-> config[1],
                   _test_file |-> test_file])

\* BrokerTd.from_config
from_config(config) ==
    IF config.data.file # <<>>
    THEN BrokerTd_init(<<>>, config.data.file)
    ELSE BrokerTd_init(<<config>>, <<>>)

\* Broker.to_config (base.py), the method merge_broker calls: BrokerTd does
\* not override it (it defines to_config_data, which nothing calls).
to_config(broker) == Raised("NotImplementedError")

\* BrokerTd.to_config_data: the provider data of a broker object.
to_config_data(broker) ==
    IF broker._test_file # <<>>
    THEN [FileData EXCEPT !.file = broker._test_file]
    ELSE broker.config.data

\* BrokerTd.UI_add(account_name).  `selection` is the menu choice,
\* `is_file` whether the access token names an existing file, `network_ok`
\* whether the requests to TD succeed.
UI_add(account_name, selection, is_file, network_ok) ==
    IF selection = "1" /\ ~network_ok
    THEN Raised("RequestException")
    ELSE IF is_file
    THEN from_config([name |-> account_name, data |-> FileData])
    ELSE IF ~network_ok
    THEN Raised("RequestException")
    ELSE IF selection = "2"
    THEN Raised("UnboundLocalError")
    ELSE from_config([name |-> account_name, data |-> TokenData])

\* UserConfig.__init__: data is the stored configuration, brokers the
\* objects of the entries whose provider is registered; the first
\* from_config that raises ends the load.
UserConfig(stored_brokers) ==
    LET known == SelectSeq(stored_brokers,
                     LAMBDA c : c.provider \in get_broker_providers)
        objects == [k \in 1..Len(known) |->
                       from_config([name |-> known[k].name, data |-> known[k].data])]
    IN IF \E k \in 1..Len(known) : objects[k].raised # <<>>
       THEN Raised("TypeError")
       ELSE Returned([data |-> stored_brokers,
                      brokers |-> [k \in 1..Len(known) |-> objects[k].value[1]]])

\* UserConfig.get_broker_config_by_name: the first entry of that name.
get_broker_config_by_name(data, name) ==
    LET hits == SelectSeq(data, LAMBDA c : c.name = name)
    IN IF hits = <<>> THEN <<>> ELSE <<hits[1]>>

\* UserConfig.get_broker_by_name: the first broker object of that name.
get_broker_by_name(brokers, name) ==
    LET hits == SelectSeq(brokers, LAMBDA b : b.account_name = name)
    IN IF hits = <<>> THEN <<>> ELSE <<hits[1]>>

\* UserConfig.merge_broker: the entry is built (provider, name, data) before
\* it is appended, so an exception of to_config leaves data as it was.
merge_broker(data, broker) ==
    LET config_data == to_config(broker)
    IN IF config_data.raised # <<>>
       THEN [raised |-> config_data.raised, value |-> <<data>>]
       ELSE Returned(Append(data, [provider |-> broker.provider_name,
                                   name |-> broker.account_name,
                                   data |-> config_data.value[1]]))

\* remove_broker that stops at the first entry it removes and drops the
\* rest of the list.
remove_broker_truncating(data, account_name) ==
    LET first == CHOOSE k \in 1..(Len(data) + 1) :
                     /\ k = Len(data) + 1 \/ data[k].name = account_name
                     /\ \A j \in 1..(k - 1) : data[j].name # account_name
    IN SubSeq(data, 1, first - 1)

\* UserConfig.remove_broker
remove_broker(data, account_name) ==
    SelectSeq(data, LAMBDA c : c.name # account_name)

\* ------------------------------------------------------------------- state
VARIABLES
    rev,                \* the revision of the folds this run executes
    caller,             \* "thetactl", "main" or "direct"
    today,              \* datetime.date.today()
    account_trades,     \* the trades of the account (broker.get_trades())
    trades,             \* the trade collection handed to the entry point
    symbols,            \* the symbol filter given on the command line
    pc,                 \* "cli", "start", "loop" or "done"
    by_symbol,          \* symbol -> its trades, in input order
    queue,              \* the symbols still to be processed, ascending
    printed,            \* the per-symbol sections printed so far
    profits_by_symbol,  \* <<symbol, profits>> in insertion order
    total_profits_sum,  \* the grand total printed by the summary
    returned,           \* what the entry point returned (None before it does)
    broker,             \* the BrokerTd object: _test_data, has_api, _trades
    api_transactions,   \* what the account's transactions endpoint lists
    queries,            \* the outcome of each call of _get_transactions
    get_trades_calls,   \* the outcome of each call of get_trades
    stored,             \* data['brokers'] of the stored config.json
    last_run,           \* what the last run of thetactl.py did
    previous_run        \* what the run before the last did

vars == <<rev, caller, today, account_trades, trades, symbols, pc, by_symbol, queue, printed, profits_by_symbol, total_profits_sum, returned, broker, api_transactions, queries, get_trades_calls, stored, last_run, previous_run>>

\* The variables of the BrokerTd object and of its use.
td_vars == <<broker, api_transactions, queries, get_trades_calls>>

\* The variables of the stored configuration and of the command line.
cfg_vars == <<stored, last_run, previous_run>>

\* No run of thetactl.py yet.  Of a run: the command, the --account given,
\* the account name add-broker accepted and those it turned down, the stored
\* configuration the run started from, the broker UI_add returned, the
\* exception that ended the run, the exit status, whether "Saved" was
\* reached, whether the brokers were listed, the broker analyzed.
NoRun ==
    [cmd |-> "none",
     account |-> <<>>,
     accname |-> <<>>,
     rejected |-> {},
     stored_before |-> <<>>,
     new_broker |-> <<>>,
     raised |-> <<>>,
     exit_status |-> 0,
     saved |-> FALSE,
     listed |-> FALSE,
     analyzed |-> <<>>]

\* The variables of a run of the report.
report_vars == <<rev, caller, today, account_trades, trades, symbols, pc, by_symbol, queue, printed, profits_by_symbol, total_profits_sum, returned>>

SymbolFilters == {{}, {"AAA"}, {"BBB"}}

Callers(revision) ==
    IF revision = "base" THEN {"main"}
    ELSE IF revision = "components" THEN {"thetactl", "direct"}
    ELSE {"direct"}

Init ==
    /\ rev \in Revisions
    /\ caller \in Callers(rev)
    /\ today \in 1..MaxDate
    /\ account_trades \in TradeLists
    /\ trades = IF caller = "thetactl" THEN <<>> ELSE account_trades
    /\ symbols \in IF caller = "direct" THEN {{}} ELSE SymbolFilters
    /\ pc = IF caller = "thetactl" THEN "cli" ELSE "start"
    /\ by_symbol = <<>>
    /\ queue = <<>>
    /\ printed = <<>>
    /\ profits_by_symbol = <<>>
    /\ total_profits_sum = 0
    /\ returned = None
    /\ broker = BrokerTd(<<>>)
    /\ api_transactions = <<>>
    /\ queries = <<>>
    /\ get_trades_calls = <<>>
    /\ stored = <<>>
    /\ last_run = NoRun
    /\ previous_run = NoRun

\* cmd_analyze_options (thetactl.py), the argument of the call of
\* trade_grid: the broker's option trades under the symbol filter.
cmd_analyze_options ==
    /\ pc = "cli"
    /\ caller = "thetactl"
    /\ trades' = get_options_trades(account_trades, symbols)
    /\ pc' = "start"
    /\ UNCHANGED <<rev, caller, today, account_trades, symbols, by_symbol, queue, printed, profits_by_symbol, total_profits_sum, returned, broker, api_transactions, queries, get_trades_calls, stored, last_run, previous_run>>

\* trade_grid (components.py), up to the loop: group the trades by symbol.
trade_grid_group ==
    /\ pc = "start"
    /\ rev \in {"components", "analyze"}
    /\ by_symbol' = group_by_symbol(trades)
    /\ queue' = sorted_symbols(DOMAIN by_symbol')
    /\ pc' = "loop"
    /\ UNCHANGED <<rev, caller, today, account_trades, trades, symbols, printed, profits_by_symbol, total_profits_sum, returned, broker, api_transactions, queries, get_trades_calls, stored, last_run, previous_run>>

\* trade_grid (components.py), one iteration of the loop over the symbols.
trade_grid_symbol ==
    /\ pc = "loop"
    /\ rev \in {"components", "analyze"}
    /\ queue # <<>>
    /\ LET section == symbol_section(rev, Head(queue), by_symbol[Head(queue)], today)
       IN /\ printed' = Append(printed, section)
          /\ profits_by_symbol' = Append(profits_by_symbol, <<section.symbol, section.profits>>)
    /\ queue' = Tail(queue)
    /\ UNCHANGED <<rev, caller, today, account_trades, trades, symbols, pc, by_symbol, total_profits_sum, returned, broker, api_transactions, queries, get_trades_calls, stored, last_run, previous_run>>

\* trade_grid_summary with a total that cannot be taken of no values (as
\* max() or reduce() without an initial value): with no symbol the call
\* raises and the run never finishes.
trade_grid_summary_needs_a_symbol ==
    /\ pc = "loop"
    /\ rev \in {"components", "analyze"}
    /\ queue = <<>>
    /\ profits_by_symbol # <<>>
    /\ total_profits_sum' = sum_values(profits_by_symbol)
    /\ returned' = None
    /\ pc' = "done"
    /\ UNCHANGED <<rev, caller, today, account_trades, trades, symbols, by_symbol, queue, printed, profits_by_symbol, broker, api_transactions, queries, get_trades_calls, stored, last_run, previous_run>>

\* trade_grid (components.py), after the loop: the summary and grand total.
\* The function has no return statement: it returns None.
trade_grid_summary ==
    /\ pc = "loop"
    /\ rev \in {"components", "analyze"}
    /\ queue = <<>>
    /\ total_profits_sum' = sum_values(profits_by_symbol)
    /\ returned' = None
    /\ pc' = "done"
    /\ UNCHANGED <<rev, caller, today, account_trades, trades, symbols, by_symbol, queue, printed, profits_by_symbol, broker, api_transactions, queries, get_trades_calls, stored, last_run, previous_run>>

\* Broker.print_options_profitability (base.py), up to the loop: keep the
\* OPTION trades, apply the symbol filter, group by symbol.
print_options_profitability_group ==
    /\ pc = "start"
    /\ rev = "base"
    /\ by_symbol' = options_by_symbol(trades, symbols)
    /\ queue' = sorted_symbols(DOMAIN by_symbol')
    /\ pc' = "loop"
    /\ UNCHANGED <<rev, caller, today, account_trades, trades, symbols, printed, profits_by_symbol, total_profits_sum, returned, broker, api_transactions, queries, get_trades_calls, stored, last_run, previous_run>>

\* Broker.print_options_profitability (base.py), one iteration of the loop;
\* the method ends when the loop does, returning None.
print_options_profitability_symbol ==
    /\ pc = "loop"
    /\ rev = "base"
    /\ queue # <<>>
    /\ printed' = Append(printed, symbol_section(rev, Head(queue), by_symbol[Head(queue)], today))
    /\ queue' = Tail(queue)
    /\ returned' = None
    /\ pc' = IF queue' = <<>> THEN "done" ELSE "loop"
    /\ UNCHANGED <<rev, caller, today, account_trades, trades, symbols, by_symbol, profits_by_symbol, total_profits_sum, broker, api_transactions, queries, get_trades_calls, stored, last_run, previous_run>>

\* Broker.print_options_profitability (base.py) with nothing to report.
print_options_profitability_empty ==
    /\ pc = "loop"
    /\ rev = "base"
    /\ queue = <<>>
    /\ returned' = None
    /\ pc' = "done"
    /\ UNCHANGED <<rev, caller, today, account_trades, trades, symbols, by_symbol, queue, printed, profits_by_symbol, total_profits_sum, broker, api_transactions, queries, get_trades_calls, stored, last_run, previous_run>>

Next ==
    \/ cmd_analyze_options
    \/ trade_grid_group
    \/ trade_grid_symbol
    \/ trade_grid_summary
    \/ print_options_profitability_group
    \/ print_options_profitability_symbol
    \/ print_options_profitability_empty

Spec == Init /\ [][Next]_vars

\* ------------------------------------------------- get_trades on one object
\* A BrokerTd object, built with or without a test file, before its first
\* get_trades; no report is run.
InitTd ==
    /\ rev = "components"
    /\ caller = "direct"
    /\ today = 1
    /\ account_trades = <<>>
    /\ trades = <<>>
    /\ symbols = {}
    /\ pc = "start"
    /\ by_symbol = <<>>
    /\ queue = <<>>
    /\ printed = <<>>
    /\ profits_by_symbol = <<>>
    /\ total_profits_sum = 0
    /\ returned = None
    /\ \E test_file \in BOOLEAN :
           IF test_file
           THEN /\ broker \in {BrokerTd(<<data>>) : data \in TransactionLists}
                /\ api_transactions = <<>>
           ELSE /\ broker = BrokerTd(<<>>)
                /\ api_transactions \in TransactionLists
    /\ queries = <<>>
    /\ get_trades_calls = <<>>
    /\ stored = <<>>
    /\ last_run = NoRun
    /\ previous_run = NoRun

\* get_trades that fetches and converts on every call and never looks at
\* _trades.
get_trades_uncached ==
    /\ Len(get_trades_calls) < MaxCalls
    /\ \E outcome \in _get_transactions(broker, api_transactions) :
           /\ queries' = Append(queries, IF outcome.raised THEN "raised" ELSE "returned")
           /\ IF outcome.raised
              THEN /\ broker' = broker
                   /\ get_trades_calls' = Append(get_trades_calls,
                          [raised |-> TRUE, trades |-> <<>>])
              ELSE /\ broker' = [broker EXCEPT
                          !._trades = <<trades_of_transactions(outcome.data)>>]
                   /\ get_trades_calls' = Append(get_trades_calls,
                          [raised |-> FALSE, trades |-> broker'._trades[1]])
    /\ UNCHANGED <<api_transactions, report_vars, cfg_vars>>

\* BrokerTd.get_trades: one call.  With _trades unset the transactions are
\* fetched; an exception of the fetch leaves _trades unset and goes to the
\* caller.
get_trades ==
    /\ Len(get_trades_calls) < MaxCalls
    /\ IF broker._trades = <<>>
       THEN \E outcome \in _get_transactions(broker, api_transactions) :
               /\ queries' = Append(queries, IF outcome.raised THEN "raised" ELSE "returned")
               /\ IF outcome.raised
                  THEN /\ broker' = broker
                       /\ get_trades_calls' = Append(get_trades_calls,
                              [raised |-> TRUE, trades |-> <<>>])
                  ELSE /\ broker' = [broker EXCEPT
                              !._trades = <<trades_of_transactions(outcome.data)>>]
                       /\ get_trades_calls' = Append(get_trades_calls,
                              [raised |-> FALSE, trades |-> broker'._trades[1]])
       ELSE /\ get_trades_calls' = Append(get_trades_calls,
                   [raised |-> FALSE, trades |-> broker._trades[1]])
            /\ UNCHANGED <<broker, queries>>
    /\ UNCHANGED <<api_transactions, report_vars, cfg_vars>>

NextTd == get_trades

SpecTd == InitTd /\ [][NextTd]_vars

\* ------------------------------------------- the commands of thetactl.py
\* A stored configuration with pairwise distinct account names, before the
\* first command; no report is run and no trades are fetched.
InitCfg ==
    /\ rev = "components"
    /\ caller = "direct"
    /\ today = 1
    /\ account_trades = <<>>
    /\ trades = <<>>
    /\ symbols = {}
    /\ pc = "start"
    /\ by_symbol = <<>>
    /\ queue = <<>>
    /\ printed = <<>>
    /\ profits_by_symbol = <<>>
    /\ total_profits_sum = 0
    /\ returned = None
    /\ broker = BrokerTd(<<>>)
    /\ api_transactions = <<>>
    /\ queries = <<>>
    /\ get_trades_calls = <<>>
    /\ stored \in StoredConfigs
    /\ last_run = NoRun
    /\ previous_run = NoRun

\* The values of args.account: <<>> without --account.
Accounts == {<<>>} \cup {<<name>> : name \in AccountNames}

\* The names typed at the prompt of add-broker, in the order typed.
TypedNames == UNION {[1..n -> AccountNames] : n \in 1..MaxTyped}

\* The name prompt of cmd_add_broker: every name typed before the last has
\* an entry and is turned down, the last has none and ends the loop.
accname_accepted(data, typed) ==
    /\ \A k \in 1..(Len(typed) - 1) :
           get_broker_config_by_name(data, typed[k]) # <<>>
    /\ get_broker_config_by_name(data, typed[Len(typed)]) = <<>>

\* subcommand (thetactl.py): what `@subcommand(...)` leaves bound to the name
\* of the function it decorates.  The decorator registers the function with
\* the parser and has no return statement: the name is bound to None.
subcommand(func) == <<>>

\* A run that ends with an uncaught exception: a traceback and status 1.
run_raised(run, exception) ==
    [run EXCEPT !.raised = exception, !.exit_status = 1]

\* main, add-broker: load the configuration, ask for a free account name,
\* UI_add, merge_broker, persist.
cmd_add_broker ==
    /\ \E typed \in TypedNames, selection \in {"1", "2"},
          is_file \in BOOLEAN, network_ok \in BOOLEAN :
          LET config == UserConfig(stored)
              run == [NoRun EXCEPT !.cmd = "add-broker", !.stored_before = stored]
          IN IF config.raised # <<>>
             THEN /\ last_run' = run_raised(run, config.raised)
                  /\ stored' = stored
             ELSE /\ accname_accepted(config.value[1].data, typed)
                  /\ LET accname == typed[Len(typed)]
                         named == [run EXCEPT
                                      !.accname = <<accname>>,
                                      !.rejected = {typed[k] : k \in 1..(Len(typed) - 1)}]
                         new_broker == UI_add(accname, selection, is_file, network_ok)
                     IN IF new_broker.raised # <<>>
                        THEN /\ last_run' = run_raised(named, new_broker.raised)
                             /\ stored' = stored
                        ELSE LET merged == merge_broker(config.value[1].data,
                                                        new_broker.value[1])
                                 built == [named EXCEPT !.new_broker = new_broker.value]
                             IN IF merged.raised # <<>>
                                THEN /\ last_run' = run_raised(built, merged.raised)
                                     /\ stored' = stored
                                ELSE /\ last_run' = [built EXCEPT !.saved = TRUE]
                                     /\ stored' = merged.value[1]
    /\ previous_run' = last_run
    /\ UNCHANGED <<report_vars, td_vars>>

\* main, remove-broker: load the configuration, remove_broker, persist.
cmd_remove_broker ==
    /\ \E account \in Accounts :
          LET config == UserConfig(stored)
              run == [NoRun EXCEPT !.cmd = "remove-broker",
                                   !.account = account,
                                   !.stored_before = stored]
          IN IF config.raised # <<>>
             THEN /\ last_run' = run_raised(run, config.raised)
                  /\ stored' = stored
             ELSE IF account = <<>>
             THEN /\ last_run' = [run EXCEPT !.exit_status = 1]
                  /\ stored' = stored
             ELSE /\ last_run' = [run EXCEPT !.saved = TRUE]
                  /\ stored' = remove_broker(config.value[1].data, account[1])
    /\ previous_run' = last_run
    /\ UNCHANGED <<report_vars, td_vars>>

\* main, list-brokers: cmd_list_brokers reached through args.func.
cmd_list_brokers ==
    /\ LET config == UserConfig(stored)
           run == [NoRun EXCEPT !.cmd = "list-brokers", !.stored_before = stored]
       IN IF config.raised # <<>>
          THEN last_run' = run_raised(run, config.raised)
          ELSE last_run' = [run EXCEPT !.listed = TRUE]
    /\ previous_run' = last_run
    /\ UNCHANGED <<stored, report_vars, td_vars>>

\* main, analyze-options, up to the call of broker.get_options_trades: the
\* choice of the broker.  An --account that names no broker prints two lines
\* and calls cmd_list_brokers(config) by its module-level name.
cmd_analyze_options_broker ==
    /\ \E account \in Accounts :
          LET config == UserConfig(stored)
              run == [NoRun EXCEPT !.cmd = "analyze-options",
                                   !.account = account,
                                   !.stored_before = stored]
          IN IF config.raised # <<>>
             THEN last_run' = run_raised(run, config.raised)
             ELSE LET brokers == config.value[1].brokers
                  IN IF account # <<>>
                     THEN IF get_broker_by_name(brokers, account[1]) = <<>>
                          THEN IF subcommand("cmd_list_brokers") = <<>>
                               THEN last_run' = run_raised(run, <<"TypeError">>)
                               ELSE last_run' = [run EXCEPT !.listed = TRUE,
                                                            !.exit_status = 1]
                          ELSE last_run' = [run EXCEPT !.analyzed =
                                   get_broker_by_name(brokers, account[1])]
                     ELSE IF Len(brokers) > 0
                          THEN last_run' = [run EXCEPT !.analyzed = <<brokers[1]>>]
                          ELSE last_run' = [run EXCEPT !.exit_status = 1]
    /\ previous_run' = last_run
    /\ UNCHANGED <<stored, report_vars, td_vars>>

NextCfg ==
    \/ cmd_add_broker
    \/ cmd_remove_broker
    \/ cmd_list_brokers
    \/ cmd_analyze_options_broker

SpecCfg == InitCfg /\ [][NextCfg]_vars

\* =================================================================== claims
\* The grid rows printed so far, as <<section, row>> positions.
RowPositions ==
    {<<i, k>> \in (1..Len(printed)) \X (1..Len(trades)) :
        k <= Len(printed[i].full_table)}

RowAt(pos) == printed[pos[1]].full_table[pos[2]]

\* The running total shown in the row before `pos` (0 before the first row).
TotalBefore(pos) ==
    IF pos[2] = 1 THEN 0 ELSE printed[pos[1]].full_table[pos[2] - 1].total_profits

\* The sign-rule table of the specification, in interest unit u.
TableLong(t, u) ==
    IF <<t.instruction, t.position_effect>> = <<BUY, OPEN>> THEN u * t.quantity
    ELSE IF <<t.instruction, t.position_effect>> = <<SELL, CLOSE>> THEN -(u * t.quantity)
    ELSE 0

TableShort(t, u) ==
    IF <<t.instruction, t.position_effect>> = <<SELL, OPEN>> THEN u * t.quantity
    ELSE IF <<t.instruction, t.position_effect>> = <<BUY, CLOSE>> THEN -(u * t.quantity)
    ELSE 0

\* C1: every OPTION trade's grid row changes exactly one of the four interest
\* counters: the long counter of its kind by +qty (BUY-OPEN) or -qty
\* (SELL-CLOSE), the short counter of its kind by +qty (SELL-OPEN) or -qty
\* (BUY-CLOSE), the other three by 0, in one unit (qty or 100*qty) for all
\* rows.
C1_InterestTable ==
    \E u \in {1, 100} :
        \A pos \in RowPositions :
            LET r == RowAt(pos)
                t == r.trade
            IN t.asset_type = OPTION =>
                /\ r.call_long_interest_delta = (IF t.option_type = CALL THEN TableLong(t, u) ELSE 0)
                /\ r.call_short_interest_delta = (IF t.option_type = CALL THEN TableShort(t, u) ELSE 0)
                /\ r.put_long_interest_delta = (IF t.option_type = PUT THEN TableLong(t, u) ELSE 0)
                /\ r.put_short_interest_delta = (IF t.option_type = PUT THEN TableShort(t, u) ELSE 0)
                /\ Cardinality({n \in 1..4 :
                        <<r.call_long_interest_delta, r.call_short_interest_delta,
                          r.put_long_interest_delta, r.put_short_interest_delta>>[n] # 0}) = 1

\* A BUY-to-CLOSE CALL row of two contracts: the short calls counter moved.
C1_Witness ==
    \E pos \in RowPositions :
        /\ RowAt(pos).trade.asset_type = OPTION
        /\ RowAt(pos).trade.instruction = BUY
        /\ RowAt(pos).trade.position_effect = CLOSE
        /\ RowAt(pos).trade.option_type = CALL
        /\ RowAt(pos).trade.quantity = 2
        /\ RowAt(pos).call_short_interest_delta \in {-2, -200}

\* C2: every OPTION trade's profit delta is -price*quantity*100 for a BUY and
\* +price*quantity*100 for a SELL, whatever the position effect, and goes to
\* the calls column for a CALL and to the puts column for a PUT, the other
\* column's delta being 0.
C2_ProfitDelta ==
    \A pos \in RowPositions :
        LET r == RowAt(pos)
            t == r.trade
            d == IF t.instruction = BUY
                 THEN -(t.price * t.quantity * 100)
                 ELSE t.price * t.quantity * 100
        IN t.asset_type = OPTION =>
            /\ r.total_profits_delta = d
            /\ r.call_profits_delta = (IF t.option_type = CALL THEN d ELSE 0)
            /\ r.put_profits_delta = (IF t.option_type = PUT THEN d ELSE 0)

\* A BUY-to-CLOSE PUT row: a debit in the puts column, nothing in the calls
\* column.
C2_Witness ==
    \E pos \in RowPositions :
        /\ RowAt(pos).trade.asset_type = OPTION
        /\ RowAt(pos).trade.instruction = BUY
        /\ RowAt(pos).trade.position_effect = CLOSE
        /\ RowAt(pos).trade.option_type = PUT
        /\ RowAt(pos).put_profits_delta < 0
        /\ RowAt(pos).call_profits_delta = 0

\* The signed notional of the specification: price * quantity * multiplier *
\* sign.
SignedNotional(t) ==
    t.price * t.quantity
        * (IF t.asset_type = OPTION THEN 100 ELSE 1)
        * (IF t.instruction = BUY THEN -1 ELSE 1)

\* C3 as stated: for every trade in the grid, call_profit_delta +
\* put_profit_delta equals the trade's cost.
C3_Original ==
    \A pos \in RowPositions :
        RowAt(pos).call_profits_delta + RowAt(pos).put_profits_delta
            = SignedNotional(RowAt(pos).trade)

\* C3 as amended: for every OPTION trade in the grid, call_profit_delta +
\* put_profit_delta equals the trade's cost.
C3_SignRuleRoundTrip ==
    \A pos \in RowPositions :
        RowAt(pos).trade.asset_type = OPTION =>
            RowAt(pos).call_profits_delta + RowAt(pos).put_profits_delta
                = SignedNotional(RowAt(pos).trade)

\* A SELL row of an option whose two profit deltas sum to +400.
C3_Witness ==
    \E pos \in RowPositions :
        /\ RowAt(pos).trade.asset_type = OPTION
        /\ RowAt(pos).trade.instruction = SELL
        /\ RowAt(pos).call_profits_delta + RowAt(pos).put_profits_delta = 400

\* C4: an EQUITY trade, or any trade outside the eight table combinations,
\* yields all-zero deltas (four interest deltas, calls and puts profit
\* deltas, total-profit delta) and leaves the running total unchanged.
C4_EquityAllZero ==
    \A pos \in RowPositions :
        LET r == RowAt(pos)
            t == r.trade
        IN (\/ t.asset_type = EQUITY
            \/ t.option_type \notin OptionType
            \/ t.position_effect \notin PositionEffect) =>
            /\ r.call_long_interest_delta = 0
            /\ r.call_short_interest_delta = 0
            /\ r.put_long_interest_delta = 0
            /\ r.put_short_interest_delta = 0
            /\ r.call_profits_delta = 0
            /\ r.put_profits_delta = 0
            /\ r.total_profits_delta = 0
            /\ r.total_profits = TotalBefore(pos)

\* The contract rows printed so far, as <<section, row>> positions.
ChainPositions ==
    {<<i, k>> \in (1..Len(printed)) \X (1..Len(trades)) :
        k <= Len(printed[i].condensed_table)}

ChainAt(pos) == printed[pos[1]].condensed_table[pos[2]]

\* The positions in the input of the trades of the contract of chain `pos`.
ContractTrades(pos) ==
    {j \in 1..Len(trades) :
        /\ trades[j].symbol = printed[pos[1]].symbol
        /\ trades[j].option_symbol = ChainAt(pos).option_symbol}

\* The expiration date of the contract of chain `pos`.
ContractExpiration(pos) ==
    trades[CHOOSE j \in ContractTrades(pos) : TRUE].option_expiration

\* The total quantity the trades at positions J trade with the given
\* instruction and position effect.
RECURSIVE QuantityTraded(_, _, _)
QuantityTraded(J, instruction, position_effect) ==
    IF J = {} THEN 0
    ELSE LET j == CHOOSE j \in J : TRUE
         IN (IF /\ trades[j].instruction = instruction
                /\ trades[j].position_effect = position_effect
             THEN trades[j].quantity ELSE 0)
            + QuantityTraded(J \ {j}, instruction, position_effect)

\* Every BUY-to-OPEN quantity is matched by SELL-to-CLOSE quantity and every
\* SELL-to-OPEN quantity by BUY-to-CLOSE quantity.
Balanced(J) ==
    /\ QuantityTraded(J, BUY, OPEN) = QuantityTraded(J, SELL, CLOSE)
    /\ QuantityTraded(J, SELL, OPEN) = QuantityTraded(J, BUY, CLOSE)

\* C5: a contract whose trades are exactly balanced ends with open interest
\* 0, in every revision of the per-contract fold.
C5_Conservation ==
    \A pos \in ChainPositions :
        Balanced(ContractTrades(pos)) => ChainAt(pos).interest = 0

\* The sum of the signed notionals of the trades at positions J.
RECURSIVE NotionalSum(_)
NotionalSum(J) ==
    IF J = {} THEN 0
    ELSE LET j == CHOOSE j \in J : TRUE
         IN SignedNotional(trades[j]) + NotionalSum(J \ {j})

\* The sum of the realized profits of the first n contract rows of a section.
RECURSIVE ProfitOfChains(_, _)
ProfitOfChains(section, n) ==
    IF n = 0 THEN 0
    ELSE section.condensed_table[n].profit + ProfitOfChains(section, n - 1)

MarkedProvisional(c) == c.dim /\ c.marker = "..." /\ c.interest_shown

\* A contract row carries none of them.
NotMarkedProvisional(c) == ~c.dim /\ c.marker # "..." /\ ~c.interest_shown

\* C7: a contract is marked still-open/provisional if and only if its
\* expiration date is strictly after today and its final open interest is
\* non-zero.
C7_ProvisionalIff ==
    \A pos \in ChainPositions :
        IF ContractExpiration(pos) > today /\ ChainAt(pos).interest # 0
        THEN MarkedProvisional(ChainAt(pos))
        ELSE NotMarkedProvisional(ChainAt(pos))

\* C8: a contract whose expiration date is in the past or is today is never
\* marked provisional and is annotated 'expired' exactly when its final open
\* interest is non-zero.
C8_Settled ==
    \A pos \in ChainPositions :
        (/\ ChainAt(pos).option_symbol # None
         /\ ContractExpiration(pos) <= today) =>
            /\ NotMarkedProvisional(ChainAt(pos))
            /\ (ChainAt(pos).marker = "expired") <=> (ChainAt(pos).interest # 0)

\* C9: a contract whose final open interest is 0 carries no annotation (no
\* continuation marker, no 'expired', no open-interest field) and its profit
\* is not dimmed, whatever its expiration.
C9_ClosedNoAnnotation ==
    \A pos \in ChainPositions :
        ChainAt(pos).interest = 0 =>
            /\ ~ChainAt(pos).dim
            /\ ChainAt(pos).marker = ""
            /\ ~ChainAt(pos).interest_shown

\* The orderings of the input collection.
Orderings ==
    {[i \in 1..Len(trades) |-> trades[sigma[i]]] :
        sigma \in {f \in [1..Len(trades) -> 1..Len(trades)] :
                      \A a, b \in 1..Len(trades) : a # b => f[a] # f[b]}}

\* What a run of the entry point on `input` prints: the per-symbol sections
\* in order.
SectionsOf(input) ==
    LET groups == IF rev = "base" THEN options_by_symbol(input, symbols)
                  ELSE group_by_symbol(input)
        order == sorted_symbols(DOMAIN groups)
    IN [k \in 1..Len(order) |-> symbol_section(rev, order[k], groups[order[k]], today)]

\* The grand total of a run on `input`.
RECURSIVE GrandTotalOf(_, _)
GrandTotalOf(sections, n) ==
    IF n = 0 THEN 0 ELSE sections[n].profits + GrandTotalOf(sections, n - 1)

\* The finished run printed exactly what a run on `input` prints.
SameOutput(input) ==
    /\ SectionsOf(input) = printed
    /\ rev # "base" =>
           total_profits_sum = GrandTotalOf(SectionsOf(input), Len(SectionsOf(input)))

\* No two trades of one symbol share a transaction time.
NoTimeTies ==
    \A a, b \in 1..Len(trades) :
        (a # b /\ trades[a].symbol = trades[b].symbol) =>
            trades[a].transaction_datetime # trades[b].transaction_datetime

\* C10 as stated: a run on any other ordering of the same trades yields the
\* same output, also when trades share a transaction time.
C10_Original ==
    pc = "done" => \A input \in Orderings : SameOutput(input)

\* C10 as amended: when no two trades of one symbol share a transaction
\* time, a run on any other ordering of the same trades yields the same
\* output.
C10_Determinism ==
    (pc = "done" /\ NoTimeTies) => \A input \in Orderings : SameOutput(input)

\* A finished run on two trades of two contracts of one symbol, handed over
\* latest first.
C10_Witness ==
    /\ pc = "done"
    /\ Len(trades) = 2
    /\ trades[1].symbol = trades[2].symbol
    /\ trades[1].option_symbol # trades[2].option_symbol
    /\ trades[1].transaction_datetime > trades[2].transaction_datetime
    /\ Len(printed) = 1
    /\ printed[1].full_table[1].trade = trades[2]

\* The total the grid of a section ends with: the running total of its last
\* row, 0 for a grid without rows.
FinalTotal(section) ==
    IF section.full_table = <<>> THEN 0
    ELSE section.full_table[Len(section.full_table)].total_profits

\* The sum of the final totals of the first n sections printed.
RECURSIVE SumFinalTotals(_)
SumFinalTotals(n) ==
    IF n = 0 THEN 0 ELSE FinalTotal(printed[n]) + SumFinalTotals(n - 1)

\* The symbols that have at least one trade in the input.
TradedSymbols == {trades[j].symbol : j \in 1..Len(trades)}

StepsInGridOrder(section, option_symbol) ==
    LET contract_rows == SelectSeq(section.full_table,
                             LAMBDA r : r.trade.option_symbol = option_symbol)
    IN [k \in 1..Len(contract_rows) |-> trade_sequence_step(contract_rows[k].trade)]

\* C12: the sections come in ascending symbol order; within a section the
\* grid's rows are in non-decreasing transaction-time order and every
\* contract's chain lists the contract's trades in that same order, whatever
\* the order of the input.
C12_ProcessingOrder ==
    /\ \A i, j \in 1..Len(printed) :
           i < j => SymbolLess(printed[i].symbol, printed[j].symbol)
    /\ \A i \in 1..Len(printed) :
           /\ \A k, l \in 1..Len(printed[i].full_table) :
                  k < l => printed[i].full_table[k].trade.transaction_datetime
                               <= printed[i].full_table[l].trade.transaction_datetime
           /\ \A c \in 1..Len(printed[i].condensed_table) :
                  printed[i].condensed_table[c].trade_sequence
                      = StepsInGridOrder(printed[i],
                            printed[i].condensed_table[c].option_symbol)

\* Two trades of one contract handed over latest first: the chain lists the
\* earlier trade's step first.
C12_Witness ==
    /\ Len(trades) = 2
    /\ trades[1].option_symbol = trades[2].option_symbol
    /\ trades[1].asset_type = OPTION
    /\ trades[1].transaction_datetime > trades[2].transaction_datetime
    /\ trades[1].price # trades[2].price
    /\ Len(printed) = 1
    /\ Len(printed[1].condensed_table) = 1
    /\ printed[1].condensed_table[1].trade_sequence
           = <<trade_sequence_step(trades[2]), trade_sequence_step(trades[1])>>

\* The trade is one the report is to show under the symbol filter: an OPTION
\* trade whose underlying symbol the filter names, or any OPTION trade when
\* the filter is empty.
PassesFilter(t) ==
    /\ t.asset_type = OPTION
    /\ (symbols = {} \/ t.symbol \in symbols)

\* How often the trade occurs in the account, and in the grids printed.
TimesInAccount(t) ==
    Cardinality({j \in 1..Len(account_trades) : account_trades[j] = t})

TimesReported(t) ==
    Cardinality({pos \in RowPositions : RowAt(pos).trade = t})

\* C13: a run started from the command line reports exactly the account's
\* OPTION trades whose underlying symbol is in the symbol filter (all OPTION
\* trades when the filter is empty); a symbol left without trades has no
\* section; no EQUITY trade reaches the grid builder or the accumulator.
C13_SymbolFilter ==
    (pc = "done" /\ caller \in {"thetactl", "main"}) =>
        /\ \A t \in {account_trades[j] : j \in 1..Len(account_trades)}
                      \cup {RowAt(pos).trade : pos \in RowPositions} :
               TimesReported(t) = IF PassesFilter(t) THEN TimesInAccount(t) ELSE 0
        /\ {printed[i].symbol : i \in 1..Len(printed)}
               = {account_trades[j].symbol :
                     j \in {n \in 1..Len(account_trades) : PassesFilter(account_trades[n])}}
        /\ \A i \in 1..Len(printed) :
               /\ printed[i].full_table # <<>>
               /\ \A k \in 1..Len(printed[i].full_table) :
                      printed[i].full_table[k].trade.symbol = printed[i].symbol
        /\ \A pos \in ChainPositions : ChainAt(pos).option_symbol \in OptionSymbols

\* print_options_profitability with the filter {"AAA"} on an account holding
\* an option trade of BBB and an equity trade of AAA: nothing is reported.
C13_Witness ==
    /\ pc = "done"
    /\ caller = "main"
    /\ symbols = {"AAA"}
    /\ Len(account_trades) = 2
    /\ account_trades[1].symbol = "BBB"
    /\ account_trades[2].asset_type = EQUITY
    /\ printed = <<>>

\* C14: on an empty trade collection the run goes on to its end (no step
\* raises), no symbol section is printed, the per-symbol mapping stays empty
\* and the grand total is 0.
C14_EmptyInput ==
    account_trades = <<>> =>
        /\ pc # "done" => ENABLED Next
        /\ printed = <<>>
        /\ profits_by_symbol = <<>>
        /\ total_profits_sum = 0

\* trade_grid called on the empty list has finished.
C14_Witness ==
    /\ account_trades = <<>>
    /\ trades = <<>>
    /\ caller = "direct"
    /\ rev = "components"
    /\ pc = "done"
    /\ printed = <<>>
    /\ total_profits_sum = 0

\* The sum of the total-profit deltas of the first k rows of a grid.
RECURSIVE SumTotalDeltas(_, _)
SumTotalDeltas(table, k) ==
    IF k = 0 THEN 0
    ELSE table[k].total_profits_delta + SumTotalDeltas(table, k - 1)

\* The trades the grid builder is called on for a symbol: the symbol's
\* trades, sorted by time.
GridInput(symbol) == sorted_by_time(by_symbol[symbol])

\* C15: the grid has exactly one row per trade handed to the grid builder,
\* in the order handed over; the running total of row k is the sum of the
\* total-profit deltas of rows 1..k; the total returned for the symbol is the
\* running total of the last row, 0 when there is no row.
C15_GridRows ==
    \A i \in 1..Len(printed) :
        LET table == printed[i].full_table
            input == GridInput(printed[i].symbol)
        IN /\ Len(table) = Len(input)
           /\ \A k \in 1..Len(table) :
                  /\ table[k].trade = input[k]
                  /\ table[k].total_profits = SumTotalDeltas(table, k)
           /\ printed[i].profits = SumTotalDeltas(table, Len(table))
           /\ printed[i].profits =
                  (IF table = <<>> THEN 0 ELSE table[Len(table)].total_profits)

\* A grid of two rows: a debit of 200, then a credit of 100 that leaves the
\* running total and the symbol's total at -100.
C15_Witness ==
    \E i \in 1..Len(printed) :
        /\ Len(printed[i].full_table) = 2
        /\ printed[i].full_table[1].total_profits_delta = -200
        /\ printed[i].full_table[1].total_profits = -200
        /\ printed[i].full_table[2].total_profits_delta = 100
        /\ printed[i].full_table[2].total_profits = -100
        /\ printed[i].profits = -100

\* The six counters of the grid: the column of the table and the delta of
\* the loop it belongs to.
GridCounters ==
    {<<"long_calls", "call_long_interest_delta">>,
     <<"short_calls", "call_short_interest_delta">>,
     <<"long_puts", "put_long_interest_delta">>,
     <<"short_puts", "put_short_interest_delta">>,
     <<"calls_profits", "call_profits_delta">>,
     <<"puts_profits", "put_profits_delta">>}

\* The value of a counter after row k: the sum of its deltas over rows 1..k.
RECURSIVE RunningValue(_, _, _)
RunningValue(table, k, delta) ==
    IF k = 0 THEN 0 ELSE table[k][delta] + RunningValue(table, k - 1, delta)

RECURSIVE DirectedInterest(_, _)
DirectedInterest(steps, k) ==
    IF k = 0 THEN 0
    ELSE LET before == DirectedInterest(steps, k - 1)
             pos == <<steps[k].instruction, steps[k].position_effect>>
         IN IF pos \in {<<BUY, OPEN>>, <<BUY, CLOSE>>}
            THEN before + steps[k].quantity
            ELSE before - steps[k].quantity

\* Every CLOSE step among the first k closes no more than is open on its
\* side: SELL-CLOSE of q on a long position of n >= q, BUY-CLOSE of q on a
\* short position of n >= q.
RECURSIVE ClosesWithinOpen(_, _)
ClosesWithinOpen(steps, k) ==
    IF k = 0 THEN TRUE
    ELSE LET before == DirectedInterest(steps, k - 1)
             pos == <<steps[k].instruction, steps[k].position_effect>>
         IN /\ ClosesWithinOpen(steps, k - 1)
            /\ pos = <<SELL, CLOSE>> => before >= steps[k].quantity
            /\ pos = <<BUY, CLOSE>> => -before >= steps[k].quantity

\* C17: in every revision of the per-contract fold, BUY-OPEN moves the open
\* interest toward long, SELL-OPEN toward short, and a CLOSE of q <= n
\* contracts on a position of n (SELL-CLOSE on long, BUY-CLOSE on short)
\* leaves the magnitude n - q; the interest is counted in one unit (contracts
\* or 100 per contract) for all contracts.
C17_AccumulatorDirections ==
    \E u \in {1, 100} :
        \A pos \in ChainPositions :
            LET steps == ChainAt(pos).trade_sequence
            IN (/\ ChainAt(pos).option_symbol \in OptionSymbols
                /\ ClosesWithinOpen(steps, Len(steps))) =>
                   ChainAt(pos).interest = u * DirectedInterest(steps, Len(steps))

\* The number of steps of the first n chains of a section.
RECURSIVE StepsOfChains(_, _)
StepsOfChains(section, n) ==
    IF n = 0 THEN 0
    ELSE Len(section.condensed_table[n].trade_sequence) + StepsOfChains(section, n - 1)

StructuredReport ==
    [symbols |-> [i \in 1..Len(printed) |->
                     [symbol |-> printed[i].symbol,
                      grid |-> printed[i].full_table,
                      chains |-> printed[i].condensed_table,
                      total |-> printed[i].profits]],
     grand_total |-> SumFinalTotals(Len(printed))]

\* C19: the entry point writes nothing to the console and, when it is done,
\* has returned the structured report (per-symbol grids, per-symbol contract
\* chains, per-symbol totals and the grand total) to its caller.
C19_NoOutputReturnsReport ==
    /\ printed = <<>>
    /\ pc = "done" => (returned # None /\ returned = StructuredReport)

\* The transactions the object's source holds: the test data when it is used,
\* else the account's transactions.
SourceTransactions ==
    IF broker._test_data # <<>> /\ broker._test_data[1] # <<>>
    THEN broker._test_data[1]
    ELSE api_transactions

\* The calls of get_trades that returned, and the queries that did.
ReturnedCalls == {i \in 1..Len(get_trades_calls) : ~get_trades_calls[i].raised}

ReturnedQueries == {k \in 1..Len(queries) : queries[k] = "returned"}

\* The list is one trade per source transaction of type TRADE, in source
\* order.
OneTradePerTradeTransaction(trade_list) ==
    LET kept == SelectSeq(SourceTransactions, LAMBDA t : t.type = "TRADE")
    IN /\ Len(trade_list) = Len(kept)
       /\ \A k \in 1..Len(kept) : trade_list[k] = TdTrade_of(kept[k])

AllOptionTrades(section) ==
    \A j \in 1..Len(by_symbol[section.symbol]) :
        by_symbol[section.symbol][j].asset_type = OPTION

OptionTradesOf(section) ==
    SelectSeq(GridInput(section.symbol), LAMBDA t : t.asset_type = OPTION)

\* The sum of the open interest of the first n contract rows.
RECURSIVE SumInterest(_, _)
SumInterest(rows, n) ==
    IF n = 0 THEN 0 ELSE rows[n].interest + SumInterest(rows, n - 1)

\* Cumulative long-call and long-put interest deltas minus cumulative
\* short-call and short-put interest deltas of the first n grid rows.
RECURSIVE NetGridInterest(_, _)
NetGridInterest(rows, n) ==
    IF n = 0 THEN 0
    ELSE rows[n].call_long_interest_delta + rows[n].put_long_interest_delta
         - rows[n].call_short_interest_delta - rows[n].put_short_interest_delta
         + NetGridInterest(rows, n - 1)

\* C22: for every symbol and every prefix of its time-ordered OPTION trades,
\* the sum over the contracts of the accumulator's signed open interest
\* equals the grid's cumulative long (call + put) interest deltas minus its
\* cumulative short (call + put) interest deltas, both views taken in the
\* same revision and so in the same unit.
C22_ViewsAgreeOnInterest ==
    \A i \in 1..Len(printed) :
        \A k \in 0..Len(OptionTradesOf(printed[i])) :
            LET prefix == SubSeq(OptionTradesOf(printed[i]), 1, k)
                grid == get_trade_grid(rev, prefix)
                condensed == get_trade_sequence(rev, prefix, today)
            IN SumInterest(condensed.rows, Len(condensed.rows))
                   = NetGridInterest(grid.rows, Len(grid.rows))

\* The positions of the entries of `brokers` that do not have the name.
OtherPositions(brokers, name) ==
    {k \in 1..Len(brokers) : brokers[k].name # name}

\* The k-th smallest element of a set of positions.
KthPosition(positions, k) ==
    CHOOSE p \in positions : Cardinality({q \in positions : q < p}) = k - 1

\* What one run of add-broker or remove-broker has to show.
RunKeepsNamesApart(run, stored_after) ==
    /\ (run.cmd = "add-broker" /\ run.accname # <<>>) =>
           /\ \A k \in 1..Len(run.stored_before) :
                  run.stored_before[k].name # run.accname[1]
           /\ \A name \in run.rejected :
                  \E k \in 1..Len(run.stored_before) :
                      run.stored_before[k].name = name
    /\ run.cmd = "add-broker" =>
           /\ Len(stored_after) >= Len(run.stored_before)
           /\ SubSeq(stored_after, 1, Len(run.stored_before)) = run.stored_before
           /\ \A k \in (Len(run.stored_before) + 1)..Len(stored_after) :
                  run.accname = <<stored_after[k].name>>
    /\ (run.cmd = "remove-broker" /\ run.saved) =>
           LET others == OtherPositions(run.stored_before, run.account[1])
           IN /\ \A k \in 1..Len(stored_after) :
                     stored_after[k].name # run.account[1]
              /\ Len(stored_after) = Cardinality(others)
              /\ \A k \in 1..Len(stored_after) :
                     stored_after[k] = run.stored_before[KthPosition(others, k)]

\* C23: from a stored configuration with pairwise distinct account names,
\* after any sequence of commands the stored account names are pairwise
\* distinct; add-broker accepts only a name that has no entry (and turns
\* down only names that have one) and leaves the existing entries in place;
\* remove-broker leaves no entry of the name given and keeps every other
\* entry, unchanged and in the original order.
C23_NamesStayDistinct ==
    /\ Cardinality({stored[k].name : k \in 1..Len(stored)}) = Len(stored)
    /\ RunKeepsNamesApart(last_run, stored)
    /\ last_run.cmd \in {"add-broker", "remove-broker"} =>
           RunKeepsNamesApart(previous_run, last_run.stored_before)

\* add-broker turned down the taken name "a" and accepted the free name "b"
\* on a configuration of two entries, then remove-broker removed "a", the
\* first of the two: the other entry is what is stored.
C23_Witness ==
    /\ previous_run.cmd = "add-broker"
    /\ previous_run.rejected = {"a"}
    /\ previous_run.accname = <<"b">>
    /\ previous_run.new_broker # <<>>
    /\ Len(previous_run.stored_before) = 2
    /\ last_run.cmd = "remove-broker"
    /\ last_run.saved
    /\ last_run.account = <<"a">>
    /\ last_run.stored_before[1].name = "a"
    /\ Len(stored) = 1
    /\ stored[1] = last_run.stored_before[2]

\* The brokers a load of `stored_brokers` restores that have the provider,
\* the account name and the provider data of `new_broker`.
RestoredAs(stored_brokers, new_broker) ==
    LET config == UserConfig(stored_brokers)
    IN IF config.raised # <<>> THEN {}
       ELSE {k \in 1..Len(config.value[1].brokers) :
                /\ config.value[1].brokers[k].provider_name = new_broker.provider_name
                /\ config.value[1].brokers[k].account_name = new_broker.account_name
                /\ to_config_data(config.value[1].brokers[k]) = to_config_data(new_broker)}

\* C24: an add-broker run that got its account name and met no network
\* failure has created a broker (token-based or test-file-based), merged and
\* persisted it without an exception, and the next load of the stored
\* configuration does not raise and restores a broker of the same provider,
\* account name and provider data.
C24_ConfigRoundTrip ==
    (/\ last_run.cmd = "add-broker"
     /\ last_run.accname # <<>>
     /\ last_run.raised # <<"RequestException">>) =>
        /\ last_run.new_broker # <<>>
        /\ last_run.raised = <<>>
        /\ last_run.saved
        /\ UserConfig(stored).raised = <<>>
        /\ RestoredAs(stored, last_run.new_broker[1]) # {}

\* The brokers the run found configured: those its load of the stored
\* configuration built.
ConfiguredBrokers(run) == UserConfig(run.stored_before).value[1].brokers

\* C25: an analyze-options run whose configuration loaded: with --account
\* naming a configured broker, that broker is analyzed; with --account
\* naming none, the brokers are listed, the exit status is 1 and nothing is
\* analyzed; without --account the first configured broker is analyzed, and
\* with no broker configured the exit status is 1 and nothing is analyzed.
C25_BrokerSelection ==
    (/\ last_run.cmd = "analyze-options"
     /\ UserConfig(last_run.stored_before).raised = <<>>) =>
        LET brokers == ConfiguredBrokers(last_run)
            named == {k \in 1..Len(brokers) :
                         last_run.account = <<brokers[k].account_name>>}
        IN /\ (last_run.account # <<>> /\ named # {}) =>
                  /\ last_run.analyzed # <<>>
                  /\ \E k \in named : last_run.analyzed = <<brokers[k]>>
                  /\ last_run.exit_status = 0
           /\ (last_run.account # <<>> /\ named = {}) =>
                  /\ last_run.listed
                  /\ last_run.exit_status = 1
                  /\ last_run.analyzed = <<>>
           /\ (last_run.account = <<>> /\ brokers # <<>>) =>
                  /\ last_run.analyzed = <<brokers[1]>>
                  /\ last_run.exit_status = 0
           /\ (last_run.account = <<>> /\ brokers = <<>>) =>
                  /\ last_run.exit_status = 1
                  /\ last_run.analyzed = <<>>
====
